---- MODULE Spec2Model ----
(***************************************************************************)
(* A model of the focus bot (src/main.py): the admission gate, the         *)
(* per-participant session state machine, the decision engine and the      *)
(* deferred-notification timers.                                           *)
(*                                                                         *)
(* One participant (chat_id) is followed.                                  *)
(*   Spec      every handler and timer function is one atomic action       *)
(*             (per-participant serialized handling);                      *)
(*   SpecRace  two threads of the handler pool run result_actions, split   *)
(*             at its read and its write of result_locked;                 *)
(*   SpecPick  pick_best_local applied to drawn action lists;              *)
(*   SpecGate  can_use_today applied to drawn plans and usage counts;      *)
(*   SpecArm   the schedule_* functions and the timer threads alone;       *)
(*   SpecSched two threads of the handler pool in the schedule_* functions;*)
(*   SpecFire  the timer threads under the fairness of threading.Timer.    *)
(***************************************************************************)
EXTENDS Integers, Sequences, FiniteSets, TLC

VARIABLES
    chat_id,      \* the participant followed (m.chat.id / call.message.chat.id)
    sub,          \* the participant's row of table subscriptions
    focus_today,  \* count_today(chat_id, "focus")
    user_data,    \* dict user_data, restricted to chat_id
    timers,       \* dict timers[chat_id]: kind -> Timer object (0: None / no entry)
    threads,      \* the threading.Timer threads that are started and still alive
    fails,        \* the calls that have raised so far
    calls,        \* SpecRace: the result_actions invocations in flight
    pick_in,      \* SpecPick: the session data given to pick_best_local
    pick_out,     \* SpecPick: what pick_best_local returned
    gate_out,     \* SpecGate: what can_use_today returned
    ops           \* SpecArm: the scheduler operations applied so far

vars == <<chat_id, sub, focus_today, user_data, timers, threads, fails,
          calls, pick_in, pick_out, gate_out, ops>>

(***************************************************************************)
(* Bounds of the model.                                                    *)
(***************************************************************************)
MaxSessions == 2    \* sessions admitted in a behaviour, at most
MaxFails == 1       \* calls to the transport or the event log that raise, at most
MaxFiring == 1      \* timer threads running their function at once, at most
MaxPickLen == 4     \* SpecPick: longest action list drawn
MaxOps == 4         \* SpecArm: scheduler operations applied, at most
MaxUsed == 6        \* SpecGate: largest count of "focus" events drawn
MaxArms == 2        \* SpecFire: calls of the schedule_* and cancel functions, at most

(***************************************************************************)
(* Program constants.                                                      *)
(***************************************************************************)
FREE_DAILY_USES == 3
WEEK_DAILY_USES == 5
MinActions == 3
MaxActions == 7
ADMIN_IDS == {"admin"}
Chats == {"admin", "user"}

PLAN_DAYS == {"day", "week", "month", "two_month"}
CRITERIA == <<"influence", "urgency", "energy", "meaning">>
Kinds == {"check", "remind", "support"}
Levels == {"low", "mid", "high"}
Types == {"mental", "physical", "routine", "social"}
ResCmds == {"start", "delay10", "delay30", "skip"}

(***************************************************************************)
(* Message identities.  Telegram gives every sent message a fresh positive *)
(* id.  Within one session every prompt is sent at most once, so a prompt  *)
(* is identified by its place in the session; OldMsg is a message with a   *)
(* keyboard that was sent before the current session began.  0 is None.    *)
(***************************************************************************)
NoMsg == 0
MsgEnergy == 1
MsgResult == 2
OldMsg == 3
MsgType(i) == 10 + i
MsgScore(i, c) == 100 + 4 * i + c

(***************************************************************************)
(* The world a handler runs in: the mutable state it reads and writes, and *)
(* out, what it has emitted so far (messages, callback answers, events).   *)
(***************************************************************************)
World == [ud |-> user_data, tm |-> timers, th |-> threads,
          fc |-> focus_today, out |-> <<>>]

HasData(W) == chat_id \in DOMAIN W.ud
Data(W) == W.ud[chat_id]

NoTimers == [k \in Kinds |-> 0]

\* ------------------------------------------------------------------------
\* SUBSCRIPTIONS
\* ------------------------------------------------------------------------
NoSub == [plan |-> "none", live |-> FALSE]

\* get_sub: (plan, expires); live stands for expires > now.
get_sub == IF sub.plan = "none" THEN [plan |-> "free", live |-> FALSE] ELSE sub

is_active(plan, live) == IF plan = "free" THEN FALSE ELSE live

effective_plan ==
    IF chat_id \in ADMIN_IDS THEN "two_month"
    ELSE IF is_active(get_sub.plan, get_sub.live) THEN get_sub.plan ELSE "free"

\* A limit test that admits one use more.
can_use_today_le(used, cap) == used <= cap

\* A limit test that never denies.
can_use_today_any(used, cap) == TRUE

\* The limit tests of can_use_today: used < WEEK_DAILY_USES, used < FREE_DAILY_USES.
can_use_today_lt(used, cap) == used < cap

\* can_use_today: (ok, reason); the reason names the plan and the cap.
Allowed == [ok |-> TRUE, reason |-> "", cap |-> 0]

Denied(plan, cap) == [ok |-> FALSE, reason |-> "limit_reached", plan |-> plan, cap |-> cap]

can_use_today(used) ==
    IF chat_id \in ADMIN_IDS THEN Allowed
    ELSE LET plan == effective_plan IN
         IF plan \in {"month", "two_month", "day"} THEN Allowed
         ELSE IF plan = "week"
              THEN IF can_use_today_lt(used, WEEK_DAILY_USES)
                   THEN Allowed
                   ELSE Denied(plan, WEEK_DAILY_USES)
              ELSE IF can_use_today_lt(used, FREE_DAILY_USES)
                   THEN Allowed
                   ELSE Denied("free", FREE_DAILY_USES)

\* ------------------------------------------------------------------------
\* SESSION MEMORY + TIMERS
\* ------------------------------------------------------------------------
NoScores == [k \in {} |-> 0]

FreshSession ==
    [step |-> "idle",
     energy_now |-> "none", energy_msg_id |-> NoMsg, energy_locked |-> FALSE,
     actions |-> <<>>, cur_action |-> 0, cur_crit |-> 0,
     expected_type_msg_id |-> NoMsg, answered_type_msgs |-> {},
     expected_score_msg_id |-> NoMsg, answered_score_msgs |-> {},
     focus |-> "none", focus_type |-> "none",
     result_msg_id |-> NoMsg, result_locked |-> FALSE,
     check_count |-> 0]

reset_session(W) == [W EXCEPT !.ud = (chat_id :> FreshSession)]

SetField(W, f, v) == [W EXCEPT !.ud = (chat_id :> [Data(W) EXCEPT ![f] = v])]

\* A Timer object of the map is a live thread's id, or FinishedTimer: an
\* object whose thread has ended.
FinishedTimer == -1

\* Timer.cancel(): a thread still waiting never runs its function; one that
\* has begun running it, or has ended, is not affected.
\* A cancel() that stops nothing.
TimerCancel_ignored(th, id) == th

TimerCancel(th, id) == {t \in th : ~(t.id = id /\ t.st = "pending")}

cancel_timer(W, key) ==
    LET t == W.tm[key] IN
    [W EXCEPT !.th = IF t # 0 THEN TimerCancel(@, t) ELSE @,
              !.tm = [@ EXCEPT ![key] = 0]]

\* A cancel_all_timers that leaves the support timer alone.
cancel_check_and_remind(W) == cancel_timer(cancel_timer(W, "check"), "remind")

cancel_all_timers(W) ==
    cancel_timer(cancel_timer(cancel_timer(W, "check"), "remind"), "support")

\* A fresh Timer object: an identity no live thread holds.
NewTimer(W) ==
    LET used == {t.id : t \in W.th}
    IN  CHOOSE n \in 1..(Cardinality(used) + 1) : n \notin used

\* threading.Timer(minutes * 60, f); timers[chat_id][kind] = t; t.start()
StartTimer(W, kind, minutes) ==
    LET id == NewTimer(W) IN
    [W EXCEPT !.tm = [@ EXCEPT ![kind] = id],
              !.th = @ \cup {[id |-> id, kind |-> kind, minutes |-> minutes,
                              st |-> "pending"]}]

\* A schedule_check that never starts its timer.
schedule_check_unstarted(W, minutes) == cancel_timer(W, "check")

\* A schedule_remind that always waits 10 minutes.
schedule_remind_ten(W, minutes) == StartTimer(cancel_timer(W, "remind"), "remind", 10)

\* A schedule_check that starts the new timer without cancelling the old.
schedule_check_keep(W, minutes) == StartTimer(W, "check", minutes)

schedule_check(W, minutes) == StartTimer(cancel_timer(W, "check"), "check", minutes)

schedule_remind(W, minutes) == StartTimer(cancel_timer(W, "remind"), "remind", minutes)

schedule_support_after_ok_two_month(W) ==
    StartTimer(cancel_timer(W, "support"), "support", 10)

Pending(th, kind) == {t \in th : t.kind = kind /\ t.st = "pending"}

\* ------------------------------------------------------------------------
\* SCORING
\* ------------------------------------------------------------------------
\* energy_weight, times 10: the totals are compared, and a total times 10 is
\* an integer.  In floating point the totals compare the same way: two
\* totals are equal only when all their terms are (a difference of the
\* integer parts is never a multiple of 0.6 below 3), and two different
\* totals differ by 0.2 at least.
energy_weight(level) ==
    CASE level = "low" -> 20
      [] level = "mid" -> 10
      [] level = "high" -> 6
      [] OTHER -> 10

\* A total that rewards the energy score instead of its complement.
Total10_energy_raw(s, ew) ==
    10 * (s["influence"] * 2 + s["urgency"] * 2 + s["meaning"] * 1)
      + s["energy"] * ew

Total10(s, ew) ==
    10 * (s["influence"] * 2 + s["urgency"] * 2 + s["meaning"] * 1)
      + (6 - s["energy"]) * ew

\* A scan that lets a later action with an equal total win.
better_or_equal(total, best_score) == total >= best_score

better(total, best_score) == total > best_score

\* The scan of pick_best_local from action i on: [best, best_score], best an
\* index into actions (0: None).
RECURSIVE PickScan(_, _, _, _, _)
PickScan(acts, ew, i, best, best_score) ==
    IF i > Len(acts) THEN best
    ELSE LET total == Total10(acts[i].scores, ew) IN
         IF better(total, best_score)
         THEN PickScan(acts, ew, i + 1, i, total)
         ELSE PickScan(acts, ew, i + 1, best, best_score)

\* pick_best_local(data): the index of the action returned.
pick_best_local(data) ==
    PickScan(data.actions, energy_weight(data.energy_now), 1, 0, -(10 ^ 9))

\* ------------------------------------------------------------------------
\* What the participant sends.
\* ------------------------------------------------------------------------
\* A text is its lines (the text split at "\n"), a line its characters.
L_ab == <<"a", "b">>
L_cd == <<" ", "c", "d", " ">>
L_ef == <<"e", "f">>
L_g == <<"g">>
L_hi == <<"h", "i">>
L_blank == <<" ">>

TextGood == <<L_ab, L_cd, L_blank, L_g>>
TextTwo == <<L_ab, L_blank, L_cd>>
TextEight == <<L_ab, L_cd, L_ef, L_g, L_hi, L_ab, L_cd, L_ef>>
Texts == {TextGood, TextTwo, TextEight}

\* What the participant thinks of an action, by its name: the type and the
\* scores pressed when the bot asks about it.  Of the first two actions of
\* TextGood the first has the greater total at energy low, the second at
\* energy high, and the totals are equal at energy mid.
Assess(name) ==
    CASE name = <<"a", "b">> ->
           [type |-> "mental", influence |-> 3, urgency |-> 3, energy |-> 1, meaning |-> 3]
      [] name = <<"c", "d">> ->
           [type |-> "physical", influence |-> 4, urgency |-> 4, energy |-> 5, meaning |-> 3]
      [] name = <<"e", "f">> ->
           [type |-> "routine", influence |-> 1, urgency |-> 1, energy |-> 5, meaning |-> 1]
      [] name = <<"g">> ->
           [type |-> "social", influence |-> 3, urgency |-> 3, energy |-> 1, meaning |-> 3]
      [] name = <<"h", "i">> ->
           [type |-> "routine", influence |-> 4, urgency |-> 4, energy |-> 5, meaning |-> 3]
      [] OTHER ->
           [type |-> "mental", influence |-> 1, urgency |-> 1, energy |-> 1, meaning |-> 1]

\* str.strip()
RECURSIVE lstrip(_)
lstrip(l) == IF l # <<>> /\ Head(l) = " " THEN lstrip(Tail(l)) ELSE l

RECURSIVE rstrip(_)
rstrip(l) == IF l # <<>> /\ l[Len(l)] = " " THEN rstrip(SubSeq(l, 1, Len(l) - 1)) ELSE l

strip(l) == rstrip(lstrip(l))

\* [x.strip() for x in text.split("\n") if x.strip()]
RECURSIVE parse_lines(_)
parse_lines(text) ==
    IF text = <<>> THEN <<>>
    ELSE IF strip(Head(text)) # <<>>
         THEN <<strip(Head(text))>> \o parse_lines(Tail(text))
         ELSE parse_lines(Tail(text))

\* A length test that forgets the lower limit.
lines_ok_upper_only(lines) == Len(lines) <= MaxActions

lines_ok(lines) == ~(Len(lines) < MinActions \/ Len(lines) > MaxActions)

\* ------------------------------------------------------------------------
\* A handler's body as the statements it executes, in order.  The calls to
\* the transport and to the event log can raise; an exception that no
\* try/except catches ends the handler where it is raised.
\* ------------------------------------------------------------------------
I(op, a, b, c) == [op |-> op, a |-> a, b |-> b, c |-> c]

Send(tag) == I("send", tag, "", NoMsg)                \* bot.send_message(...)
SendBind(tag, f, id) == I("send", tag, f, id)         \* msg = send; data[f] = msg.message_id
Answer(tag) == I("answer", tag, "", 0)                \* bot.answer_callback_query
Log(event) == I("log", event, "", 0)                  \* log(chat_id, event, value)
Edit == I("edit", "", "", 0)                          \* try: bot.edit_...  except: pass
Set(f, v) == I("set", f, v, 0)                        \* data[f] = v
SetType(i, t) == I("type", i, t, 0)                   \* actions[i]["type"] = t
SetScore(i, key, v) == I("score", i, key, v)          \* actions[i]["scores"][key] = v
CancelAll == I("cancel_all", "", "", 0)
Schedule(kind, minutes) == I("schedule", kind, minutes, 0)
Reset == I("reset", "", "", 0)
Raise == I("raise", "", "", 0)                        \* a statement that raises

Fallible(ins) == ins.op \in {"send", "answer", "log"}

Emit(W, k, v) == [W EXCEPT !.out = Append(@, [k |-> k, v |-> v])]

log(W, event) ==
    Emit([W EXCEPT !.fc = IF event = "focus" THEN @ + 1 ELSE @], "log", event)

Exec(W, ins) ==
    CASE ins.op = "send" ->
           IF ins.b = "" THEN Emit(W, "send", ins.a)
           ELSE SetField(Emit(W, "send", ins.a), ins.b, ins.c)
      [] ins.op = "answer" -> Emit(W, "answer", ins.a)
      [] ins.op = "log" -> log(W, ins.a)
      [] ins.op = "edit" -> W
      [] ins.op = "set" -> SetField(W, ins.a, ins.b)
      [] ins.op = "type" ->
           SetField(W, "actions", [Data(W).actions EXCEPT ![ins.a].type = ins.b])
      [] ins.op = "score" ->
           SetField(W, "actions",
                    [Data(W).actions EXCEPT ![ins.a].scores = (ins.b :> ins.c) @@ @])
      [] ins.op = "cancel_all" -> cancel_all_timers(W)
      [] ins.op = "schedule" ->
           (CASE ins.a = "check" -> schedule_check(W, ins.b)
              [] ins.a = "remind" -> schedule_remind(W, ins.b)
              [] ins.a = "support" -> schedule_support_after_ok_two_month(W))
      [] ins.op = "reset" -> reset_session(W)

\* The fallible calls of a body.
NFallible(prog) == Cardinality({i \in 1..Len(prog) : Fallible(prog[i])})

\* Run the body from statement i; the f-th fallible call from here raises
\* (f = 0: none does).
RECURSIVE Run(_, _, _, _)
Run(W, prog, i, f) ==
    IF i > Len(prog) THEN W
    ELSE LET ins == prog[i] IN
         IF ins.op = "raise" THEN W
         ELSE IF Fallible(ins)
              THEN IF f = 1 THEN W
                   ELSE Run(Exec(W, ins), prog, i + 1, IF f = 0 THEN 0 ELSE f - 1)
              ELSE Run(Exec(W, ins), prog, i + 1, f)

\* ------------------------------------------------------------------------
\* FLOWS: START / MENU
\* ------------------------------------------------------------------------
\* A start that cancels the timers before it asks the gate.
start_cancel_first(W) ==
    LET gate == can_use_today(W.fc) IN
    IF ~gate.ok THEN <<CancelAll, Send(gate.reason)>>
    ELSE <<CancelAll, Reset, Set("step", "energy"),
           Send("intro"),
           SendBind("energy_prompt", "energy_msg_id", MsgEnergy),
           Set("energy_locked", FALSE),
           Log("start_energy_flow")>>

\* A start that leaves the timers running.
start_keep_timers(W) ==
    LET gate == can_use_today(W.fc) IN
    IF ~gate.ok THEN <<Send(gate.reason)>>
    ELSE <<Reset, Set("step", "energy"),
           Send("intro"),
           SendBind("energy_prompt", "energy_msg_id", MsgEnergy),
           Set("energy_locked", FALSE),
           Log("start_energy_flow")>>

start_energy_flow(W) ==
    LET gate == can_use_today(W.fc) IN
    IF ~gate.ok THEN <<Send(gate.reason)>>
    ELSE <<CancelAll, Reset, Set("step", "energy"),
           Send("intro"),
           SendBind("energy_prompt", "energy_msg_id", MsgEnergy),
           Set("energy_locked", FALSE),
           Log("start_energy_flow")>>

\* ------------------------------------------------------------------------
\* ENERGY (LOCKED)
\* ------------------------------------------------------------------------
energy_stale(data, m) == data.energy_msg_id # NoMsg /\ m # data.energy_msg_id

\* An energy_pick that goes on to typing without the actions.
energy_pick_to_typing(W, m, lvl) ==
    IF ~HasData(W) \/ Data(W).step # "energy" THEN <<Answer("press_start")>>
    ELSE <<Set("energy_now", lvl), Set("energy_locked", TRUE), Set("step", "typing"),
           Log("energy"), Edit, Edit, Answer("ok"), Send("actions_prompt")>>

\* An energy_pick that tests neither the step nor the lock.
energy_pick_again(W, m, lvl) ==
    IF ~HasData(W) THEN <<Answer("press_start")>>
    ELSE IF energy_stale(Data(W), m) THEN <<Answer("old_message")>>
    ELSE <<Set("energy_now", lvl), Set("energy_locked", TRUE), Set("step", "actions"),
           Log("energy"), Edit, Edit, Answer("ok"), Send("actions_prompt")>>

energy_pick(W, m, lvl) ==
    IF ~HasData(W) \/ Data(W).step # "energy" THEN <<Answer("press_start")>>
    ELSE IF energy_stale(Data(W), m) THEN <<Answer("old_message")>>
    ELSE IF Data(W).energy_locked THEN <<Answer("energy_already")>>
    ELSE <<Set("energy_now", lvl), Set("energy_locked", TRUE), Set("step", "actions"),
           Log("energy"), Edit, Edit, Answer("ok"), Send("actions_prompt")>>

\* ------------------------------------------------------------------------
\* ACTIONS INPUT
\* ------------------------------------------------------------------------
ask_action_type(i) == SendBind("type_prompt", "expected_type_msg_id", MsgType(i))

NewAction(name) == [name |-> name, type |-> "none", scores |-> NoScores]

\* No handler takes a text outside step "actions" (the filter of the decorator).
actions_input(W, text) ==
    IF ~HasData(W) \/ Data(W).step # "actions" THEN <<>>
    ELSE LET lines == parse_lines(text) IN
         IF ~lines_ok(lines) THEN <<Send("need_3_7")>>
         ELSE <<Set("actions", [i \in 1..Len(lines) |-> NewAction(lines[i])]),
                Set("cur_action", 0), Set("cur_crit", 0), Set("step", "typing"),
                Set("answered_type_msgs", {}), Set("expected_type_msg_id", NoMsg),
                Log("actions_count"),
                ask_action_type(0)>>

\* ------------------------------------------------------------------------
\* TYPE PICK
\* ------------------------------------------------------------------------
ask_next_score(i, c) == SendBind("score_prompt", "expected_score_msg_id", MsgScore(i, c))

type_stale(data, m) == data.expected_type_msg_id # NoMsg /\ m # data.expected_type_msg_id

type_pick(W, m, t) ==
    IF ~HasData(W) \/ Data(W).step # "typing" THEN <<Answer("press_start")>>
    ELSE IF type_stale(Data(W), m) THEN <<Answer("old_message")>>
    ELSE IF m \in Data(W).answered_type_msgs THEN <<Answer("already_chosen")>>
    ELSE LET data == Data(W)
             next == data.cur_action + 1
         IN  <<SetType(data.cur_action + 1, t),
               Set("answered_type_msgs", data.answered_type_msgs \cup {m}),
               Log("type"), Edit, Edit, Answer("ok"),
               Set("cur_action", next)>>
             \o (IF next >= Len(data.actions)
                 THEN <<Set("cur_action", 0), Set("cur_crit", 0), Set("step", "scoring"),
                        Set("answered_score_msgs", {}),
                        ask_next_score(0, 0)>>
                 ELSE <<ask_action_type(next)>>)

\* ------------------------------------------------------------------------
\* RESULT
\* ------------------------------------------------------------------------
\* A show_result that takes the first action for the best.
show_result_first(data) ==
    <<Set("step", "result"), Set("result_locked", FALSE),
      Set("focus", data.actions[1].name), Set("focus_type", data.actions[1].type),
      Log("focus"),
      SendBind("result", "result_msg_id", MsgResult)>>

\* show_result on the session data as it is when show_result is called.
show_result(data) ==
    LET best == data.actions[pick_best_local(data)] IN
    <<Set("step", "result"), Set("result_locked", FALSE),
      Set("focus", best.name), Set("focus_type", best.type),
      Log("focus"),
      SendBind("result", "result_msg_id", MsgResult)>>

\* ------------------------------------------------------------------------
\* SCORING
\* ------------------------------------------------------------------------
score_stale(data, m) == data.expected_score_msg_id # NoMsg /\ m # data.expected_score_msg_id

score_pick(W, m, score) ==
    IF ~HasData(W) \/ Data(W).step # "scoring" THEN <<Answer("not_now")>>
    ELSE IF score_stale(Data(W), m) THEN <<Answer("old_message")>>
    ELSE IF m \in Data(W).answered_score_msgs THEN <<Answer("already_chosen")>>
    ELSE LET data == Data(W)
             key == CRITERIA[data.cur_crit + 1]
             set_score == SetScore(data.cur_action + 1, key, score)
             head == <<set_score,
                       Set("answered_score_msgs", data.answered_score_msgs \cup {m}),
                       Log("score"), Edit, Edit, Answer("ok"),
                       Set("cur_crit", data.cur_crit + 1)>>
         IN  IF data.cur_crit + 1 >= Len(CRITERIA)
             THEN IF data.cur_action + 1 >= Len(data.actions)
                  THEN head \o <<Set("cur_crit", 0), Set("cur_action", data.cur_action + 1)>>
                            \o show_result(Data(Exec(W, set_score)))
                  ELSE head \o <<Set("cur_crit", 0), Set("cur_action", data.cur_action + 1),
                                 ask_next_score(data.cur_action + 1, 0)>>
             ELSE head \o <<ask_next_score(data.cur_action, data.cur_crit + 1)>>

\* ------------------------------------------------------------------------
\* RESULT BUTTONS
\* ------------------------------------------------------------------------
result_stale(data, m) == data.result_msg_id # NoMsg /\ m # data.result_msg_id

\* A lock test that never finds the lock taken.
result_never_locked(data) == FALSE

result_is_locked(data) == data.result_locked

\* A plan test that lets every plan delay by 30 minutes.
delay30_any_plan(plan) == TRUE

delay30_allowed(plan) == plan \in {"two_month", "month", "day"}

\* The side effects of a command, after the lock is taken.
result_command(cmd, plan) ==
    CASE cmd = "start" ->
           <<CancelAll, Log("started"),
             Send("you_started"), Send("motivation_start"), Send("no_distract"),
             Schedule("check", 10),
             Set("step", "started"), Answer("go")>>
      [] cmd = "delay10" ->
           <<CancelAll, Log("delayed"), Send("remind_in_10"),
             Schedule("remind", 10),
             Set("step", "idle"), Answer("ok")>>
      [] cmd = "delay30" ->
           IF ~delay30_allowed(plan)
           THEN <<Send("premium_only"), Set("step", "idle"), Answer("ok")>>
           ELSE <<CancelAll, Log("delayed"), Send("remind_in_30"),
                  Schedule("remind", 30),
                  Set("step", "idle"), Answer("ok")>>
      [] cmd = "skip" ->
           <<CancelAll, Log("skip"), Send("skip_ok"),
             Set("step", "idle"), Answer("ok")>>
      [] OTHER -> <<>>

result_actions(W, m, cmd) ==
    IF ~HasData(W) \/ Data(W).step # "result" THEN <<Answer("press_start")>>
    ELSE IF result_stale(Data(W), m) THEN <<Answer("old_message")>>
    ELSE IF result_is_locked(Data(W)) THEN <<Answer("already_accepted")>>
    ELSE <<Set("result_locked", TRUE), Edit>> \o result_command(cmd, effective_plan)

\* ------------------------------------------------------------------------
\* PROGRESS
\* ------------------------------------------------------------------------
progress_handler(W, val) ==
    IF ~HasData(W) THEN <<Answer("press_start")>>
    ELSE <<Log("progress"), Edit>> \o
         (CASE val = "ok" ->
                 <<Send("accepted_ok"), Send("motivation_ok")>>
                 \o (IF effective_plan = "two_month"
                     THEN <<Schedule("support", 10)>> ELSE <<>>)
                 \o <<Answer("ok")>>
            [] val = "hard" ->
                 <<Send("accepted_hard"), Send("motivation_hard_base"),
                   Send("motivation_hard"), Answer("ok")>>
            [] val = "quit" ->
                 <<Send("accepted_quit"), Send("quit_text"), Answer("ok")>>
            [] OTHER -> <<>>)

\* ------------------------------------------------------------------------
\* QUIT ACTIONS
\* ------------------------------------------------------------------------
quit_handler(W, cmd) ==
    <<Log("quit_action"), Edit>> \o
    (CASE cmd = "retry" -> <<Send("retry")>> \o start_energy_flow(W) \o <<Answer("ok")>>
       [] cmd = "later" -> <<Send("later"), Answer("ok")>>
       [] cmd = "new" -> start_energy_flow(W) \o <<Answer("ok")>>
       [] OTHER -> <<>>)

\* ------------------------------------------------------------------------
\* TIMERS: the function a Timer thread runs (its try/except swallows a raise)
\* ------------------------------------------------------------------------
\* A timer function that arms itself again when it has run.
timer_function_rearm(W, kind) ==
    <<Send("again"), Log("again_sent"), Schedule(kind, 10)>>

timer_function(W, kind) ==
    CASE kind = "check" -> <<Send("how_is_it_going"), Log("check_sent")>>
      [] kind = "remind" -> <<Send("smallest_step"), Log("reminder_sent")>>
      [] kind = "support" ->
           IF effective_plan # "two_month" \/ ~HasData(W) THEN <<>>
           ELSE <<Send("motivation_ok"), Log("support_sent")>>

\* ------------------------------------------------------------------------
\* The state machine: one action per inbound event, timer step or change of
\* the stores the bot reads.
\* ------------------------------------------------------------------------
Apply(W) ==
    /\ user_data' = W.ud
    /\ timers' = W.tm
    /\ threads' = W.th
    /\ focus_today' = W.fc

\* The fallible call of a body that raises (0: none).
Raises(prog) == IF fails < MaxFails THEN 0..NFallible(prog) ELSE {0}

\* A handler runs to its end, or to the call that raises.
Handle(prog) ==
    \E f \in Raises(prog) :
       /\ Apply(Run(World, prog, 1, f))
       /\ fails' = IF f = 0 THEN fails ELSE fails + 1

Harness == UNCHANGED <<calls, pick_in, pick_out, gate_out, ops>>

\* The messages whose buttons the participant can press in a phase: the
\* prompts of this session, and an old one.
Keyboards(binding, answered) ==
    {OldMsg} \cup
    (IF HasData(World)
     THEN ({Data(World)[binding]} \ {NoMsg}) \cup
          (IF answered = "" THEN {} ELSE Data(World)[answered])
     ELSE {})

\* What the participant answers about the action the bot is asking about.
CurName(W) == IF HasData(W) /\ Data(W).cur_action < Len(Data(W).actions)
              THEN Data(W).actions[Data(W).cur_action + 1].name
              ELSE <<>>

CurKey(W) == IF HasData(W) /\ Data(W).cur_crit < Len(CRITERIA)
             THEN CRITERIA[Data(W).cur_crit + 1]
             ELSE "influence"

TypeAnswer(W) == Assess(CurName(W)).type

ScoreAnswer(W) == Assess(CurName(W))[CurKey(W)]

\* The participant has used the bot earlier today, one "focus" event short
\* of the plan's cap.
StartFocus ==
    CASE effective_plan = "free" -> FREE_DAILY_USES - 1
      [] effective_plan = "week" -> WEEK_DAILY_USES - 1
      [] OTHER -> 0

\* A session that is admitted can log one "focus" event; the model stops
\* admitting after MaxSessions.
MayStart == can_use_today(focus_today).ok => focus_today < StartFocus + MaxSessions

\* "Начать действие" of the menu.
MenuStart ==
    /\ MayStart
    /\ Handle(start_energy_flow(World))
    /\ UNCHANGED <<chat_id, sub>> /\ Harness

EnergyPress ==
    /\ \E m \in Keyboards("energy_msg_id", ""), lvl \in Levels :
          Handle(energy_pick(World, m, lvl))
    /\ UNCHANGED <<chat_id, sub>> /\ Harness

TextMessage ==
    /\ \E text \in Texts : Handle(actions_input(World, text))
    /\ UNCHANGED <<chat_id, sub>> /\ Harness

TypePress ==
    /\ \E m \in Keyboards("expected_type_msg_id", "answered_type_msgs") :
          Handle(type_pick(World, m, TypeAnswer(World)))
    /\ UNCHANGED <<chat_id, sub>> /\ Harness

ScorePress ==
    /\ \E m \in Keyboards("expected_score_msg_id", "answered_score_msgs") :
          Handle(score_pick(World, m, ScoreAnswer(World)))
    /\ UNCHANGED <<chat_id, sub>> /\ Harness

ResultPress ==
    /\ \E m \in Keyboards("result_msg_id", ""), cmd \in ResCmds :
          Handle(result_actions(World, m, cmd))
    /\ UNCHANGED <<chat_id, sub>> /\ Harness

ProgressPress ==
    /\ \E val \in {"ok", "hard", "quit"} : Handle(progress_handler(World, val))
    /\ UNCHANGED <<chat_id, sub>> /\ Harness

QuitPress ==
    /\ \E cmd \in {"retry", "later", "new"} :
          /\ cmd # "later" => MayStart
          /\ Handle(quit_handler(World, cmd))
    /\ UNCHANGED <<chat_id, sub>> /\ Harness

\* A Timer thread's wait ends before anyone cancelled it: it goes on to run
\* its function, and a cancel no longer stops it.
TimerWake ==
    /\ Cardinality({t \in threads : t.st = "firing"}) < MaxFiring
    /\ \E t \in threads :
          /\ t.st = "pending"
          /\ threads' = (threads \ {t}) \cup {[t EXCEPT !.st = "firing"]}
    /\ UNCHANGED <<chat_id, sub, focus_today, user_data, timers, fails>> /\ Harness

\* The thread runs its function and ends (the map keeps the Timer object).
TimerRun ==
    /\ \E t \in threads :
          /\ t.st = "firing"
          /\ LET W == [World EXCEPT
                          !.th = @ \ {t},
                          !.tm = [k \in Kinds |-> IF @[k] = t.id THEN FinishedTimer
                                                   ELSE @[k]]] IN
             \E f \in Raises(timer_function(W, t.kind)) :
                /\ Apply(Run(W, timer_function(W, t.kind), 1, f))
                /\ fails' = IF f = 0 THEN fails ELSE fails + 1
    /\ UNCHANGED <<chat_id, sub>> /\ Harness

HarnessIdle ==
    /\ calls = <<>>
    /\ pick_in = <<>>
    /\ pick_out = 0
    /\ gate_out = <<>>
    /\ ops = <<>>

\* The participants followed: the admin, and a user on each plan.  The row
\* of table subscriptions does not change during a behaviour of Spec.
Configs ==
    {<<"admin", NoSub>>, <<"user", NoSub>>} \cup
    {<<"user", [plan |-> p, live |-> TRUE]>> : p \in PLAN_DAYS}

Init ==
    /\ \E cfg \in Configs : chat_id = cfg[1] /\ sub = cfg[2]
    /\ focus_today = StartFocus
    /\ user_data = <<>>
    /\ timers = NoTimers
    /\ threads = {}
    /\ fails = 0
    /\ HarnessIdle

Next ==
    \/ MenuStart
    \/ EnergyPress
    \/ TextMessage
    \/ TypePress
    \/ ScorePress
    \/ ResultPress
    \/ ProgressPress
    \/ QuitPress
    \/ TimerWake
    \/ TimerRun

Spec == Init /\ [][Next]_vars

\* ------------------------------------------------------------------------
\* SpecPick: pick_best_local on drawn sessions.
\* ------------------------------------------------------------------------
\* The scores drawn for an action: (influence, urgency, energy, meaning).
PickScores ==
    {<<5, 5, 1, 5>>, <<1, 1, 5, 1>>, <<3, 3, 3, 3>>, <<3, 3, 2, 1>>,
     <<3, 3, 1, 1>>, <<3, 3, 1, 3>>, <<5, 5, 4, 5>>}

ScoredAction(q) ==
    [name |-> <<"a", "b">>, type |-> "mental",
     scores |-> [influence |-> q[1], urgency |-> q[2], energy |-> q[3], meaning |-> q[4]]]

PickInit ==
    /\ chat_id = "user" /\ sub = NoSub /\ focus_today = 0
    /\ user_data = <<>> /\ timers = NoTimers /\ threads = {} /\ fails = 0
    /\ calls = <<>> /\ gate_out = <<>> /\ ops = <<>>
    /\ \E lvl \in Levels : pick_in = [energy_now |-> lvl, actions |-> <<>>]
    /\ pick_out = 0

\* One more scored action in the session.
PickAdd ==
    /\ pick_out = 0
    /\ Len(pick_in.actions) < MaxPickLen
    /\ \E q \in PickScores :
          pick_in' = [pick_in EXCEPT !.actions = Append(@, ScoredAction(q))]
    /\ UNCHANGED <<chat_id, sub, focus_today, user_data, timers, threads, fails,
                   calls, pick_out, gate_out, ops>>

\* best = pick_best_local(data)
PickCall ==
    /\ pick_out = 0
    /\ lines_ok(pick_in.actions)
    /\ pick_out' = pick_best_local(pick_in)
    /\ UNCHANGED <<chat_id, sub, focus_today, user_data, timers, threads, fails,
                   calls, pick_in, gate_out, ops>>

PickNext == PickAdd \/ PickCall

SpecPick == PickInit /\ [][PickNext]_vars

\* The total of the specification, times 10:
\* influence*2 + urgency*2 + meaning*1 + (6 - energy)*weight.
SpecWeight10(level) == IF level = "low" THEN 20 ELSE IF level = "mid" THEN 10 ELSE 6

SpecTotal10(a, level) ==
    20 * a.scores.influence + 20 * a.scores.urgency + 10 * a.scores.meaning
      + (6 - a.scores.energy) * SpecWeight10(level)

Scenario ==
    <<ScoredAction(<<5, 5, 1, 5>>), ScoredAction(<<1, 1, 5, 1>>),
      ScoredAction(<<3, 3, 3, 3>>)>>

\* C5: pick_best_local returns the action at the smallest index whose total
\* is at least the total of every other action; for energy low and the
\* scores of the scenario it returns the first action.
C5_PickBest ==
    pick_out # 0 =>
       LET acts == pick_in.actions
           lvl == pick_in.energy_now
       IN  /\ pick_out \in 1..Len(acts)
           /\ \A j \in 1..Len(acts) :
                 SpecTotal10(acts[pick_out], lvl) >= SpecTotal10(acts[j], lvl)
           /\ \A j \in 1..(pick_out - 1) :
                 SpecTotal10(acts[j], lvl) < SpecTotal10(acts[pick_out], lvl)
           /\ (lvl = "low" /\ acts = Scenario) => pick_out = 1

\* A tie for the greatest total was decided: the first of the tied actions
\* was returned.
C5_Witness ==
    /\ pick_out # 0
    /\ \E j \in (pick_out + 1)..Len(pick_in.actions) :
          SpecTotal10(pick_in.actions[j], pick_in.energy_now)
            = SpecTotal10(pick_in.actions[pick_out], pick_in.energy_now)
    /\ \E j \in 1..Len(pick_in.actions) :
          SpecTotal10(pick_in.actions[j], pick_in.energy_now)
            < SpecTotal10(pick_in.actions[pick_out], pick_in.energy_now)

SameButEnergy(a, b) ==
    /\ a.scores.influence = b.scores.influence
    /\ a.scores.urgency = b.scores.urgency
    /\ a.scores.meaning = b.scores.meaning

\* C6: of two actions with equal influence, urgency and meaning, the one
\* with the lower energy score has the strictly greater total, at every
\* energy level, and pick_best_local never returns the harder one.
C6_EnergyMonotone ==
    LET acts == pick_in.actions
        ew == energy_weight(pick_in.energy_now)
    IN  /\ \A i, j \in 1..Len(acts) :
              (SameButEnergy(acts[i], acts[j])
                 /\ acts[i].scores.energy < acts[j].scores.energy)
              => Total10(acts[i].scores, ew) > Total10(acts[j].scores, ew)
        /\ pick_out # 0 =>
              \A i \in 1..Len(acts) :
                 ~(SameButEnergy(acts[i], acts[pick_out])
                     /\ acts[i].scores.energy < acts[pick_out].scores.energy)

\* pick_best_local returned the easier of two otherwise identical actions,
\* the harder one standing before it in the list.
C6_Witness ==
    /\ pick_out > 1
    /\ \E i \in 1..(pick_out - 1) :
          /\ SameButEnergy(pick_in.actions[i], pick_in.actions[pick_out])
          /\ pick_in.actions[i].scores.energy > pick_in.actions[pick_out].scores.energy

\* ------------------------------------------------------------------------
\* SpecGate: can_use_today on drawn subscriptions and usage counts.
\* ------------------------------------------------------------------------
\* set_sub: the row of chat_id becomes (plan, now + days).
set_sub(plan) == [plan |-> plan, live |-> TRUE]

GateInit ==
    /\ chat_id \in Chats /\ sub = NoSub /\ focus_today = 0
    /\ user_data = <<>> /\ timers = NoTimers /\ threads = {} /\ fails = 0
    /\ calls = <<>> /\ pick_in = <<>> /\ pick_out = 0 /\ ops = <<>>
    /\ gate_out = <<>>

GateFrame ==
    UNCHANGED <<chat_id, user_data, timers, threads, fails, calls, pick_in,
                pick_out, ops>>

\* /grant or a successful payment: set_sub(chat_id, plan, PLAN_DAYS[plan]).
GateGrant ==
    /\ \E plan \in PLAN_DAYS : sub' = set_sub(plan)
    /\ gate_out' = <<>>
    /\ UNCHANGED focus_today
    /\ GateFrame

\* The clock passes the stored expiry.
GateExpire ==
    /\ sub.live
    /\ sub' = [sub EXCEPT !.live = FALSE]
    /\ gate_out' = <<>>
    /\ UNCHANGED focus_today
    /\ GateFrame

\* One more "focus" event of today in the log.
GateFocus ==
    /\ focus_today < MaxUsed
    /\ focus_today' = focus_today + 1
    /\ gate_out' = <<>>
    /\ UNCHANGED sub
    /\ GateFrame

\* ok, reason = can_use_today(chat_id)
GateCall ==
    /\ gate_out = <<>>
    /\ gate_out' = can_use_today(focus_today)
    /\ UNCHANGED <<sub, focus_today>>
    /\ GateFrame

GateNext == GateGrant \/ GateExpire \/ GateFocus \/ GateCall

SpecGate == GateInit /\ [][GateNext]_vars

\* The effective tier of the specification.
SpecTier == IF sub.plan = "none" \/ ~sub.live THEN "free" ELSE sub.plan

SpecAllows ==
    \/ chat_id \in ADMIN_IDS
    \/ SpecTier \in {"day", "month", "two_month"}
    \/ SpecTier = "week" /\ focus_today < 5
    \/ SpecTier = "free" /\ focus_today < 3

\* C7: can_use_today allows the participant iff the participant is an admin,
\* or the effective tier is day, month or two_month, or it is week with
\* fewer than 5 focus events today, or it is free with fewer than 3; the
\* tier is free when no subscription is stored or the expiry has passed; a
\* free participant with 3 focus events is denied and the reason names 3.
C7_Admission ==
    gate_out # <<>> =>
       /\ gate_out.ok = SpecAllows
       /\ (chat_id \notin ADMIN_IDS => effective_plan = SpecTier)
       /\ (chat_id \notin ADMIN_IDS /\ SpecTier = "free" /\ focus_today = 3)
            => (~gate_out.ok /\ gate_out.plan = "free" /\ gate_out.cap = 3)

\* A participant whose subscription has run out, with 3 focus events today,
\* was denied.
C7_Witness ==
    /\ gate_out # <<>>
    /\ ~gate_out.ok
    /\ chat_id \notin ADMIN_IDS
    /\ sub.plan \in PLAN_DAYS /\ ~sub.live
    /\ focus_today = 3

\* ------------------------------------------------------------------------
\* Properties of the handlers under serialized handling (Spec).
\* ------------------------------------------------------------------------
\* The messages a press can come from in the current state: the prompts the
\* session knows, and one sent before the session began.
PressIds ==
    {OldMsg} \cup
    (IF HasData(World)
     THEN ({Data(World).energy_msg_id, Data(World).expected_type_msg_id,
            Data(World).expected_score_msg_id, Data(World).result_msg_id}
           \cup Data(World).answered_type_msgs
           \cup Data(World).answered_score_msgs) \ {NoMsg}
     ELSE {})

\* The worlds a handler can leave behind: it ran to its end, or to any one
\* of its fallible calls.
Outcomes(prog) == {Run(World, prog, 1, f) : f \in 0..NFallible(prog)}

NoSend(W) == \A i \in 1..Len(W.out) : W.out[i].k # "send"

SessionKept(W) == W.ud = user_data

CallbacksKept(W) == W.tm = timers /\ W.th = threads

\* C2: in every reachable state and for each of the phases energy, typing,
\* scoring and result, a press whose message id differs from the binding
\* recorded for the phase (none recorded included) changes no session field
\* and sends no message.
C2_StaleRejected ==
    HasData(World) =>
       \A m \in PressIds :
          /\ m # Data(World).energy_msg_id =>
                \A lvl \in Levels : \A W \in Outcomes(energy_pick(World, m, lvl)) :
                   SessionKept(W) /\ NoSend(W)
          /\ m # Data(World).expected_type_msg_id =>
                \A t \in Types : \A W \in Outcomes(type_pick(World, m, t)) :
                   SessionKept(W) /\ NoSend(W)
          /\ m # Data(World).expected_score_msg_id =>
                \A sc \in 1..5 : \A W \in Outcomes(score_pick(World, m, sc)) :
                   SessionKept(W) /\ NoSend(W)
          /\ m # Data(World).result_msg_id =>
                \A cmd \in ResCmds : \A W \in Outcomes(result_actions(World, m, cmd)) :
                   SessionKept(W) /\ NoSend(W)

\* C3: once result_locked is true, a result press with any token, from any
\* message, changes no session field and no callback and sends no message,
\* whether the press that set the lock ran to its end or not.
C3_LockedNoOp ==
    (HasData(World) /\ Data(World).result_locked) =>
       \A m \in PressIds : \A cmd \in ResCmds \cup {"other"} :
          \A W \in Outcomes(result_actions(World, m, cmd)) :
             SessionKept(W) /\ CallbacksKept(W) /\ NoSend(W) /\ W.fc = focus_today

\* The press that set the lock ended part-way, before it changed the step;
\* a retry from the live result message is answered "already accepted".
C3_Witness ==
    /\ HasData(World)
    /\ Data(World).result_locked
    /\ Data(World).step = "result"
    /\ Data(World).result_msg_id = MsgResult
    /\ result_actions(World, MsgResult, "start") = <<Answer("already_accepted")>>

StepOf(ud) == IF chat_id \in DOMAIN ud THEN ud[chat_id].step ELSE "idle"

StepOrder ==
    {<<"energy", "actions">>, <<"actions", "typing">>, <<"typing", "scoring">>,
     <<"scoring", "result">>, <<"result", "started">>, <<"result", "idle">>}

\* A session restart: the whole session is replaced and put in energy.
Restarted(ud) ==
    /\ chat_id \in DOMAIN ud
    /\ \E id \in {NoMsg, MsgEnergy} :
          ud[chat_id] = [FreshSession EXCEPT !.step = "energy", !.energy_msg_id = id]

\* C4: the step changes only along energy, actions, typing, scoring,
\* result and then started or idle, one step at a time, except when a
\* restart replaces the whole session and puts it in energy.
C4_StepOrder ==
    [][ \/ StepOf(user_data') = StepOf(user_data)
        \/ <<StepOf(user_data), StepOf(user_data')>> \in StepOrder
        \/ Restarted(user_data') ]_vars

\* A session went through the whole order.
C4_Witness ==
    /\ HasData(World)
    /\ Data(World).step = "started"
    /\ Data(World).result_locked
    /\ Data(World).focus # "none"

\* The start requests: the menu's start, quit:new and quit:retry.
StartRequests ==
    {start_energy_flow(World), quit_handler(World, "new"), quit_handler(World, "retry")}

\* C8: when the gate denies, a start request leaves the session, the
\* callbacks and the count of focus events as they were.
C8_DeniedFrame ==
    ~can_use_today(focus_today).ok =>
       \A prog \in StartRequests : \A W \in Outcomes(prog) :
          SessionKept(W) /\ CallbacksKept(W) /\ W.fc = focus_today

\* The gate denies a participant who has a session and a pending callback,
\* and says so.
C8_Witness ==
    /\ ~can_use_today(focus_today).ok
    /\ HasData(World)
    /\ \E t \in threads : t.st = "pending"
    /\ start_energy_flow(World) = <<Send("limit_reached")>>

\* The worlds after start_energy_flow was called by a start request.
AfterStart ==
    Outcomes(start_energy_flow(World))
    \cup {Run(World, quit_handler(World, "new"), 1, f) :
             f \in {0} \cup 2..NFallible(quit_handler(World, "new"))}
    \cup {Run(World, quit_handler(World, "retry"), 1, f) :
             f \in {0} \cup 3..NFallible(quit_handler(World, "retry"))}

\* C9: after an admitted start, from any step and whatever was armed, no
\* callback armed before it is pending; only one that had begun to fire
\* remains.
C9_RestartCancels ==
    can_use_today(focus_today).ok =>
       \A W \in AfterStart :
          /\ \A t \in W.th : t.st # "pending"
          /\ W.th \subseteq threads
          /\ W.tm = NoTimers

\* A start is admitted while a check and a support callback are pending.
C9_Witness ==
    /\ can_use_today(focus_today).ok
    /\ HasData(World)
    /\ Pending(threads, "check") # {}
    /\ Pending(threads, "support") # {}
    /\ \A t \in Run(World, start_energy_flow(World), 1, 0).th : t.st # "pending"

\* ------------------------------------------------------------------------
\* SpecArm: the schedule_* functions and the timer threads.
\* ------------------------------------------------------------------------
\* The delays the bot arms a check or a reminder with.
ArmMinutes == {10, 30}

Op(op, kind, minutes) == [op |-> op, kind |-> kind, minutes |-> minutes]

ArmInit ==
    /\ chat_id = "user" /\ sub = NoSub /\ focus_today = 0
    /\ user_data = <<>> /\ timers = NoTimers /\ threads = {} /\ fails = 0
    /\ calls = <<>> /\ pick_in = <<>> /\ pick_out = 0 /\ gate_out = <<>>
    /\ ops = <<>>

ArmFrame == UNCHANGED <<chat_id, sub, fails, calls, pick_in, pick_out, gate_out>>

ArmDone(W, op) ==
    /\ Len(ops) < MaxOps
    /\ Apply(W)
    /\ ops' = Append(ops, op)
    /\ ArmFrame

ArmCheck ==
    \E minutes \in ArmMinutes :
       ArmDone(schedule_check(World, minutes), Op("arm", "check", minutes))

ArmRemind ==
    \E minutes \in ArmMinutes :
       ArmDone(schedule_remind(World, minutes), Op("arm", "remind", minutes))

ArmSupport ==
    ArmDone(schedule_support_after_ok_two_month(World), Op("arm", "support", 10))

ArmCancelAll == ArmDone(cancel_all_timers(World), Op("cancel", "all", 0))

ArmCancel == \E kind \in Kinds : ArmDone(cancel_timer(World, kind), Op("cancel", kind, 0))

\* The wait of a pending thread ends.
ArmWake ==
    \E t \in threads :
       /\ t.st = "pending"
       /\ ArmDone([World EXCEPT !.th = (@ \ {t}) \cup {[t EXCEPT !.st = "firing"]}],
                  Op("wake", t.kind, t.minutes))

\* A thread runs its function and ends.
ArmRun ==
    \E t \in threads :
       /\ t.st = "firing"
       /\ LET W == [World EXCEPT
                       !.th = @ \ {t},
                       !.tm = [k \in Kinds |-> IF @[k] = t.id THEN FinishedTimer
                                                ELSE @[k]]]
          IN  ArmDone(Run(W, timer_function(W, t.kind), 1, 0),
                      Op("run", t.kind, t.minutes))

ArmNext ==
    ArmCheck \/ ArmRemind \/ ArmSupport \/ ArmCancelAll \/ ArmCancel \/ ArmWake \/ ArmRun

SpecArm == ArmInit /\ [][ArmNext]_vars

\* The last two operations armed the same kind, one right after the other.
ArmedTwice ==
    /\ Len(ops) >= 2
    /\ ops[Len(ops)].op = "arm"
    /\ ops[Len(ops) - 1].op = "arm"
    /\ ops[Len(ops)].kind = ops[Len(ops) - 1].kind

\* C10: after a kind is armed and then armed again with duration d2, exactly
\* one callback of the kind is pending, the one with duration d2, and it is
\* the one the map names; a pending callback is always the one the map
\* names for its kind, so the first one is never woken.
C10_ReArm ==
    /\ ArmedTwice =>
          LET last == ops[Len(ops)] IN
          Pending(threads, last.kind)
            = {[id |-> timers[last.kind], kind |-> last.kind,
                minutes |-> last.minutes, st |-> "pending"]}
    /\ \A t \in threads : t.st = "pending" => timers[t.kind] = t.id
    /\ \A t, u \in threads : (t.id = u.id) => (t = u)

\* A kind was armed with one duration and at once with another, while an
\* earlier callback of the kind was running.
C10_Witness ==
    /\ ArmedTwice
    /\ ops[Len(ops)].minutes # ops[Len(ops) - 1].minutes
    /\ \E t \in threads : t.kind = ops[Len(ops)].kind /\ t.st = "firing"

\* ------------------------------------------------------------------------
\* SpecRace: two threads of the handler pool in result_actions.  A thread
\* takes one step at the test of result_locked, one at its write, and one
\* for each statement after it.
\* ------------------------------------------------------------------------
\* The threads of the pool (TeleBot's default: threaded, two workers).
Workers == {1, 2}

\* The session before any event, and a session brought to its result by
\* the handlers: start, energy, the actions, every type and every score.
EmptyWorld == [ud |-> <<>>, tm |-> NoTimers, th |-> {}, fc |-> 0, out |-> <<>>]

RunAll(W, prog) == [Run(W, prog, 1, 0) EXCEPT !.out = <<>>]

\* An inbound event handled to its end; a press comes from the prompt the
\* session is waiting on.
Event(W, ev) ==
    CASE ev = "start" -> RunAll(W, start_energy_flow(W))
      [] ev \in Levels -> RunAll(W, energy_pick(W, Data(W).energy_msg_id, ev))
      [] ev = "text" -> RunAll(W, actions_input(W, TextGood))
      [] ev = "press" /\ Data(W).step = "typing" ->
           RunAll(W, type_pick(W, Data(W).expected_type_msg_id, TypeAnswer(W)))
      [] ev = "press" /\ Data(W).step = "scoring" ->
           RunAll(W, score_pick(W, Data(W).expected_score_msg_id, ScoreAnswer(W)))
      [] OTHER -> W

\* The events evs[i..] handled one after the other.
RECURSIVE Replay(_, _, _)
Replay(W, evs, i) ==
    IF i > Len(evs) THEN W
    ELSE CHOOSE R \in {Replay(V, evs, i + 1) : V \in {Event(W, evs[i])}} : TRUE

ResultWorld(lvl) ==
    Replay(EmptyWorld,
           <<"start", lvl, "text">>
             \o [n \in 1..(MaxActions * (1 + Len(CRITERIA))) |-> "press"],
           1)

NewCall == [pc |-> "new", cmd |-> "none", prog |-> <<>>, i |-> 0, answer |-> "none"]

RaceInit ==
    /\ \E cfg \in Configs : chat_id = cfg[1] /\ sub = cfg[2]
    /\ \E lvl \in Levels :
          LET W == ResultWorld(lvl) IN
          /\ user_data = W.ud /\ timers = W.tm /\ threads = W.th
          /\ focus_today = W.fc
    /\ fails = 0
    /\ calls = [c \in Workers |-> NewCall]
    /\ pick_in = <<>> /\ pick_out = 0 /\ gate_out = <<>> /\ ops = <<>>

RaceFrame == UNCHANGED <<chat_id, sub, pick_in, pick_out, gate_out, ops>>

SessionFrame == UNCHANGED <<user_data, timers, threads, focus_today>>

\* A press of a button of the live result message is given to a thread.
RacePress(c) ==
    /\ calls[c].pc = "new"
    /\ HasData(World)
    /\ \E cmd \in ResCmds :
          calls' = [calls EXCEPT ![c] = [@ EXCEPT !.pc = "check", !.cmd = cmd]]
    /\ SessionFrame /\ UNCHANGED fails /\ RaceFrame

\* The tests of the step, of the binding and of result_locked.
RaceCheck(c) ==
    /\ calls[c].pc = "check"
    /\ LET prog == result_actions(World, Data(World).result_msg_id, calls[c].cmd) IN
       IF Len(prog) = 1 /\ prog[1].op = "answer"
       THEN calls' = [calls EXCEPT ![c] = [@ EXCEPT !.pc = "done", !.answer = prog[1].a]]
       ELSE calls' = [calls EXCEPT ![c] = [@ EXCEPT !.pc = "lock", !.prog = prog, !.i = 1]]
    /\ SessionFrame /\ UNCHANGED fails /\ RaceFrame

\* data["result_locked"] = True
RaceLock(c) ==
    /\ calls[c].pc = "lock"
    /\ Apply(Exec(World, calls[c].prog[1]))
    /\ calls' = [calls EXCEPT ![c] = [@ EXCEPT !.pc = "run", !.i = 2]]
    /\ UNCHANGED fails /\ RaceFrame

\* The next statement of the command; a fallible call can raise.
RaceStep(c) ==
    /\ calls[c].pc = "run"
    /\ LET call == calls[c]
           ins == call.prog[call.i]
           last == call.i = Len(call.prog)
       IN  \/ /\ Apply(Exec(World, ins))
              /\ calls' = [calls EXCEPT ![c] =
                             [@ EXCEPT !.pc = IF last THEN "done" ELSE "run",
                                       !.i = @ + 1,
                                       !.answer = IF ins.op = "answer" THEN ins.a ELSE @]]
              /\ UNCHANGED fails
           \/ /\ Fallible(ins)
              /\ fails < MaxFails
              /\ fails' = fails + 1
              /\ calls' = [calls EXCEPT ![c] = [@ EXCEPT !.pc = "done"]]
              /\ SessionFrame
    /\ RaceFrame

RaceNext == \E c \in Workers : RacePress(c) \/ RaceCheck(c) \/ RaceLock(c) \/ RaceStep(c)

SpecRace == RaceInit /\ [][RaceNext]_vars

\* The calls that got past the test of result_locked.
Passed == {c \in Workers : calls[c].prog # <<>>}

\* C1: of two presses of the live result message handled concurrently, at
\* most one gets past the test of result_locked and goes on to the side
\* effects; the other is answered "already accepted".
C1_OneShot ==
    /\ Cardinality(Passed) <= 1
    /\ \A c \in Workers :
          (calls[c].pc = "done" /\ calls[c].prog = <<>> /\ Passed # {})
             => calls[c].answer = "already_accepted"

\* ------------------------------------------------------------------------
\* SpecSched: two threads of the handler pool in the schedule_* functions
\* (two prog:ok presses, two res: presses past the lock).  A thread takes
\* one step at cancel_timer and one at the creation and start of the Timer.
\* ------------------------------------------------------------------------
\* What a handler can ask of the scheduler: the function and its delay.
SchedRequests ==
    {<<"check", 10>>, <<"remind", 10>>, <<"remind", 30>>, <<"support", 10>>}

IdleCall == [pc |-> "idle", kind |-> "none", minutes |-> 0]

SchedInit ==
    /\ chat_id = "user" /\ sub = NoSub /\ focus_today = 0
    /\ user_data = <<>> /\ timers = NoTimers /\ threads = {} /\ fails = 0
    /\ calls = [c \in Workers |-> IdleCall]
    /\ pick_in = <<>> /\ pick_out = 0 /\ gate_out = <<>>
    /\ ops = <<>>

SchedFrame ==
    UNCHANGED <<chat_id, sub, focus_today, user_data, fails, pick_in, pick_out,
                gate_out>>

\* A handler run by thread c reaches a schedule_* function.
SchedEnter(c) ==
    /\ calls[c].pc = "idle"
    /\ Len(ops) < MaxOps
    /\ \E r \in SchedRequests :
          /\ calls' = [calls EXCEPT ![c] = [pc |-> "cancel", kind |-> r[1], minutes |-> r[2]]]
          /\ ops' = Append(ops, Op("call", r[1], r[2]))
    /\ UNCHANGED <<timers, threads>>
    /\ SchedFrame

\* cancel_timer(chat_id, kind)
SchedCancel(c) ==
    /\ calls[c].pc = "cancel"
    /\ LET W == cancel_timer(World, calls[c].kind) IN
          timers' = W.tm /\ threads' = W.th
    /\ calls' = [calls EXCEPT ![c].pc = "start"]
    /\ UNCHANGED ops
    /\ SchedFrame

\* t = threading.Timer(...); timers[chat_id][kind] = t; t.start()
SchedStart(c) ==
    /\ calls[c].pc = "start"
    /\ LET W == StartTimer(World, calls[c].kind, calls[c].minutes) IN
          timers' = W.tm /\ threads' = W.th
    /\ calls' = [calls EXCEPT ![c] = IdleCall]
    /\ UNCHANGED ops
    /\ SchedFrame

\* A pending thread's wait ends, it runs its function and ends.
SchedFire ==
    /\ \E t \in threads :
          /\ t.st = "pending"
          /\ threads' = threads \ {t}
          /\ timers' = [k \in Kinds |-> IF timers[k] = t.id THEN FinishedTimer
                                        ELSE timers[k]]
    /\ UNCHANGED <<calls, ops>>
    /\ SchedFrame

SchedNext ==
    \/ \E c \in Workers : SchedEnter(c) \/ SchedCancel(c) \/ SchedStart(c)
    \/ SchedFire

SpecSched == SchedInit /\ [][SchedNext]_vars

\* C11: whatever the interleaving of the handlers that arm callbacks, no
\* two timers of one kind are pending, and every pending timer is the one
\* the map records for its kind.
C11_OnePerKind ==
    /\ \A k \in Kinds : Cardinality(Pending(threads, k)) <= 1
    /\ \A t \in threads : t.st = "pending" => timers[t.kind] = t.id

\* ------------------------------------------------------------------------
\* Properties of the scheduler in sequence (SpecArm).
\* ------------------------------------------------------------------------
\* Operation o ends the wait of the callback of kind k armed before it: a
\* cancel of the kind or of all, a new arm of the kind, or its own wake.
Stops(o, k) ==
    \/ o.op = "cancel" /\ o.kind \in {k, "all"}
    \/ o.op = "arm" /\ o.kind = k
    \/ o.op = "wake" /\ o.kind = k

\* The wake at place j of the history is that of a callback armed before it
\* and not cancelled since.
WokenWhileArmed(j) ==
    \E i \in 1..(j - 1) :
       /\ ops[i].op = "arm" /\ ops[i].kind = ops[j].kind
       /\ ops[i].minutes = ops[j].minutes
       /\ \A h \in (i + 1)..(j - 1) : ~Stops(ops[h], ops[j].kind)

\* The run at place j (the message and the event) is that of a callback
\* that had begun firing.
RunAfterWake(j) ==
    \E i \in 1..(j - 1) :
       /\ ops[i].op = "wake" /\ ops[i].kind = ops[j].kind
       /\ \A h \in (i + 1)..(j - 1) : ~(ops[h].op = "run" /\ ops[h].kind = ops[j].kind)

\* C12: after cancel_all_timers or cancel_timer of its kind, a callback
\* that had not begun firing never begins, so never sends and never logs,
\* for each kind; a cancel with nothing armed changes nothing.
C12_CancelBeatsFire ==
    /\ \A j \in 1..Len(ops) :
          /\ ops[j].op = "wake" => WokenWhileArmed(j)
          /\ ops[j].op = "run" => RunAfterWake(j)
    /\ (ops # <<>> /\ ops[Len(ops)].op = "cancel") =>
          \A k \in Kinds :
             ops[Len(ops)].kind \in {k, "all"} =>
                (Pending(threads, k) = {} /\ timers[k] = 0)
    /\ (threads = {} /\ timers = NoTimers) =>
          /\ cancel_all_timers(World) = World
          /\ \A k \in Kinds : cancel_timer(World, k) = World

\* All was cancelled while one callback was pending and another had begun
\* firing: the pending one is gone, the firing one remains.
C12_Witness ==
    /\ Len(ops) >= 3
    /\ ops[Len(ops)] = Op("cancel", "all", 0)
    /\ \E i, j \in 1..(Len(ops) - 1) :
          /\ ops[i].op = "arm" /\ ops[j].op = "arm" /\ ops[i].kind # ops[j].kind
    /\ \E t \in threads : t.st = "firing"
    /\ \A t \in threads : t.st # "pending"

\* C13: when a callback fires, the map stops recording a callback of its
\* kind: after the wake and the run of a callback the entry of its kind is
\* empty.
C13_FireRemoves ==
    (/\ Len(ops) >= 2
     /\ ops[Len(ops)].op = "run"
     /\ ops[Len(ops) - 1].op = "wake"
     /\ ops[Len(ops) - 1].kind = ops[Len(ops)].kind)
    => timers[ops[Len(ops)].kind] = 0

\* ------------------------------------------------------------------------
\* Properties of the result buttons and of the input checks (Spec).
\* ------------------------------------------------------------------------
\* A result press from message m gets past the three tests.
Accepted(m) ==
    /\ HasData(World)
    /\ Data(World).step = "result"
    /\ ~result_stale(Data(World), m)
    /\ ~result_is_locked(Data(World))

\* The world after result_actions has run to its end.
After(cmd, m) == Run(World, result_actions(World, m, cmd), 1, 0)

Sent(W, tag) == \E i \in 1..Len(W.out) : W.out[i] = [k |-> "send", v |-> tag]

AllPending(th) == {t \in th : t.st = "pending"}

OnePending(W, kind, minutes) ==
    Pending(W.th, kind)
      = {[id |-> W.tm[kind], kind |-> kind, minutes |-> minutes, st |-> "pending"]}

\* C14: an accepted res:delay30 of a participant on free or week sends the
\* Premium-only text, sets step to idle and arms nothing: the pending
\* callbacks are those before the press, and no remind is among them.
C14_Delay30Unsupported ==
    \A m \in PressIds :
       (Accepted(m) /\ effective_plan \in {"free", "week"}) =>
          LET W == After("delay30", m) IN
          /\ Sent(W, "premium_only")
          /\ Data(W).step = "idle"
          /\ CallbacksKept(W)
          /\ Pending(W.th, "remind") = {}

\* A participant on free or week at the live, unlocked result message,
\* whose delay30 press is answered with the Premium-only text.
C14_Witness ==
    /\ Accepted(MsgResult)
    /\ Data(World).result_msg_id = MsgResult
    /\ effective_plan \in {"free", "week"}
    /\ Sent(After("delay30", MsgResult), "premium_only")
    /\ Data(After("delay30", MsgResult)).result_locked

\* int(call.data.split(":", 1)[1]) for the tokens drawn; NotAnInt: ValueError.
NotAnInt == -1

int(tok) ==
    CASE tok = "0" -> 0 [] tok = "1" -> 1 [] tok = "2" -> 2 [] tok = "3" -> 3
      [] tok = "4" -> 4 [] tok = "5" -> 5 [] tok = "6" -> 6
      [] OTHER -> NotAnInt

\* score_pick on the token of the press: int() raises after the tests.
score_token(W, m, tok) ==
    LET prog == score_pick(W, m, int(tok)) IN
    IF int(tok) = NotAnInt /\ prog[1].op # "answer" THEN <<Raise>> ELSE prog

NoRaise(prog) == \A i \in 1..Len(prog) : prog[i].op # "raise"

Rejected(prog) == NoRaise(prog) /\ SessionKept(Run(World, prog, 1, 0))

\* C15: a press whose token is outside the known set, from any message,
\* leaves the session unchanged and its handler ends without an error.
C15_UnknownRejected ==
    HasData(World) =>
       \A m \in PressIds :
          /\ Rejected(energy_pick(World, m, "other"))
          /\ Rejected(type_pick(World, m, "other"))
          /\ \A tok \in {"0", "6", "x"} : Rejected(score_token(World, m, tok))
          /\ Rejected(result_actions(World, m, "other"))

\* The fallible calls of a body that are sends, by their place among the
\* fallible calls.
SendFails(prog) ==
    {f \in 1..NFallible(prog) :
        \E i \in 1..Len(prog) :
           /\ prog[i].op = "send"
           /\ Cardinality({j \in 1..i : Fallible(prog[j])}) = f}

\* C16: when a send raises in an accepted res:start or res:delay10, the
\* handler still ends its transition: the check is armed and step is
\* started, or the remind is armed and step is idle; the session is not left
\* locked in step result.
C16_SendFailureContinues ==
    \A m \in PressIds :
       Accepted(m) =>
          \A cmd \in {"start", "delay10"} :
             \A f \in SendFails(result_actions(World, m, cmd)) :
                LET W == Run(World, result_actions(World, m, cmd), 1, f) IN
                /\ ~(Data(W).result_locked /\ Data(W).step = "result")
                /\ cmd = "start" =>
                      (Data(W).step = "started" /\ Pending(W.th, "check") # {})
                /\ cmd = "delay10" =>
                      (Data(W).step = "idle" /\ Pending(W.th, "remind") # {})

\* C18: an accepted res:start ends with step started, the lock set, one
\* check pending with 10 minutes and no remind and no support pending,
\* whatever was pending before.
C18_StartEffect ==
    \A m \in PressIds :
       Accepted(m) =>
          LET W == After("start", m) IN
          /\ Data(W).step = "started"
          /\ Data(W).result_locked
          /\ OnePending(W, "check", 10)
          /\ Pending(W.th, "remind") = {}
          /\ Pending(W.th, "support") = {}

\* A start is accepted while a support callback is pending.
C18_Witness ==
    /\ Accepted(MsgResult)
    /\ Data(World).result_msg_id = MsgResult
    /\ Pending(threads, "support") # {}
    /\ Sent(After("start", MsgResult), "you_started")

\* C19: an accepted res:delay10 ends with step idle and one remind pending
\* with 10 minutes; an accepted res:delay30 on day, month or two_month ends
\* with step idle and one remind pending with 30 minutes; no check is
\* pending after either; no remind with 30 minutes exists on free or week.
C19_DelayEffect ==
    /\ \A m \in PressIds :
          Accepted(m) =>
             /\ LET W == After("delay10", m) IN
                /\ Data(W).step = "idle"
                /\ OnePending(W, "remind", 10)
                /\ Pending(W.th, "check") = {}
             /\ effective_plan \in {"day", "month", "two_month"} =>
                   LET W == After("delay30", m) IN
                   /\ Data(W).step = "idle"
                   /\ OnePending(W, "remind", 30)
                   /\ Pending(W.th, "check") = {}
    /\ \A t \in threads :
          (t.kind = "remind" /\ t.minutes = 30)
             => effective_plan \in {"day", "month", "two_month"}

\* A remind with 30 minutes is pending after an accepted delay30.
C19_Witness ==
    /\ HasData(World)
    /\ Data(World).step = "idle"
    /\ Data(World).result_locked
    /\ \E t \in threads : t.kind = "remind" /\ t.minutes = 30 /\ t.st = "pending"

\* C20: an accepted res:skip sets step to idle and the lock, and the
\* pending callbacks after it are exactly those before it.
C20_SkipKeeps ==
    \A m \in PressIds :
       Accepted(m) =>
          LET W == After("skip", m) IN
          /\ Data(W).step = "idle"
          /\ Data(W).result_locked
          /\ AllPending(W.th) = AllPending(threads)

\* A line that is not empty after trimming.
NonBlank(line) == \E j \in 1..Len(line) : line[j] # " "

SpecLineCount(text) == Cardinality({i \in 1..Len(text) : NonBlank(text[i])})

\* The texts the validation is tried on: those of Texts, one of 7 lines,
\* one of 3 lines among blank ones, and the empty message.
TextSeven == <<L_ab, L_cd, L_ef, L_g, L_blank, L_hi, L_ab, L_cd>>
TextThree == <<L_blank, L_g, L_blank, L_hi, L_cd, L_blank>>
ValidationTexts == Texts \cup {TextSeven, TextThree, <<>>}

\* C17: in step actions a text is accepted iff it has 3 to 7 lines that are
\* not empty after trimming; accepted, it makes one action per such line,
\* in order, with no type and no scores, and sets step to typing and both
\* cursors to 0; rejected, it changes no session field; in any other step a
\* text changes nothing.
C17_ActionsValidated ==
    \A text \in ValidationTexts :
       LET W == Run(World, actions_input(World, text), 1, 0)
           n == SpecLineCount(text)
       IN  IF HasData(World) /\ Data(World).step = "actions"
           THEN IF n >= 3 /\ n <= 7
                THEN /\ Data(W).step = "typing"
                     /\ Data(W).cur_action = 0 /\ Data(W).cur_crit = 0
                     /\ Len(Data(W).actions) = n
                     /\ \A i \in 1..n :
                           LET a == Data(W).actions[i] IN
                           /\ a.type = "none" /\ a.scores = NoScores
                           /\ a.name = parse_lines(text)[i]
                           /\ a.name # <<>>
                           /\ Head(a.name) # " " /\ a.name[Len(a.name)] # " "
                ELSE SessionKept(W) /\ Sent(W, "need_3_7")
           ELSE SessionKept(W) /\ W.out = <<>>

\* A text of four lines, one blank and one padded, was accepted as three
\* actions.
C17_Witness ==
    /\ HasData(World)
    /\ Data(World).step = "typing"
    /\ Data(World).cur_action = 0
    /\ Len(Data(World).actions) = 3
    /\ Data(World).actions[2] = NewAction(<<"c", "d">>)
    /\ Data(World).expected_type_msg_id = MsgType(0)

\* ------------------------------------------------------------------------
\* Properties of the scoring table and of the session's flags (Spec).
\* ------------------------------------------------------------------------
\* The criteria an action has a score for.
Scored(a) == DOMAIN a.scores

FirstCriteria(n) == {CRITERIA[j] : j \in 1..n}

\* The cursors are in range, the actions before the cursor are scored in
\* full, the one at the cursor up to the criterion asked, the others not.
ScoringCursor(data) ==
    /\ 0 <= data.cur_action /\ data.cur_action < Len(data.actions)
    /\ 0 <= data.cur_crit /\ data.cur_crit < Len(CRITERIA)
    /\ \A i \in 1..Len(data.actions) :
          Scored(data.actions[i]) =
             IF i < data.cur_action + 1 THEN FirstCriteria(Len(CRITERIA))
             ELSE IF i = data.cur_action + 1 THEN FirstCriteria(data.cur_crit)
             ELSE {}

\* A score press from message m gets past the three tests.
ScoreAccepted(m) ==
    /\ HasData(World)
    /\ Data(World).step = "scoring"
    /\ ~score_stale(Data(World), m)
    /\ m \notin Data(World).answered_score_msgs

\* C21: in every state with step scoring the cursors are in range and the
\* scores recorded are those of the actions before the cursor, in full, and
\* of the first cur_crit criteria of the action at the cursor; an accepted
\* score press records its value under the current criterion of the current
\* action, and cur_action grows, by one, only when cur_crit wraps from 3 to 0.
C21_ScoringCursor ==
    (HasData(World) /\ Data(World).step = "scoring") =>
       /\ ScoringCursor(Data(World))
       /\ \A m \in PressIds : \A sc \in 1..5 :
             ScoreAccepted(m) =>
                LET old == Data(World)
                    new == Data(Run(World, score_pick(World, m, sc), 1, 0))
                IN  /\ new.actions[old.cur_action + 1].scores[CRITERIA[old.cur_crit + 1]] = sc
                    /\ new.cur_action # old.cur_action =>
                          /\ old.cur_crit = Len(CRITERIA) - 1
                          /\ new.cur_crit = 0
                          /\ new.cur_action = old.cur_action + 1
                    /\ new.cur_action = old.cur_action =>
                          new.cur_crit = old.cur_crit + 1

\* The action of the specification's decision: the first of those with the
\* greatest total.
SpecBest(data) ==
    CHOOSE i \in 1..Len(data.actions) :
       /\ \A j \in 1..Len(data.actions) :
             SpecTotal10(data.actions[i], data.energy_now)
               >= SpecTotal10(data.actions[j], data.energy_now)
       /\ \A j \in 1..(i - 1) :
             SpecTotal10(data.actions[j], data.energy_now)
               < SpecTotal10(data.actions[i], data.energy_now)

\* Every action has a type and the four scores.
TableComplete(data) ==
    /\ data.actions # <<>>
    /\ \A i \in 1..Len(data.actions) :
          /\ data.actions[i].type # "none"
          /\ Scored(data.actions[i]) = FirstCriteria(Len(CRITERIA))

\* The cursor is on the last criterion of the last action.
AtLastScore(data) ==
    /\ data.cur_action + 1 = Len(data.actions)
    /\ data.cur_crit + 1 = Len(CRITERIA)

\* In step result the table is complete, one type press and four score
\* presses were accepted for each action, and the focus is the best action.
ResultTable ==
    (HasData(World) /\ Data(World).step = "result") =>
       LET data == Data(World) IN
       /\ TableComplete(data)
       /\ Cardinality(data.answered_type_msgs) = Len(data.actions)
       /\ Cardinality(data.answered_score_msgs) = Len(CRITERIA) * Len(data.actions)
       /\ data.focus = data.actions[pick_best_local(data)].name
       /\ data.focus_type = data.actions[pick_best_local(data)].type
       /\ pick_best_local(data) = SpecBest(data)

\* An accepted score press that runs to its end sets step to result iff it
\* fills the last criterion of the last action.
ResultOnLastScore ==
    \A m \in PressIds : \A sc \in 1..5 :
       ScoreAccepted(m) =>
          (Data(Run(World, score_pick(World, m, sc), 1, 0)).step = "result"
             <=> AtLastScore(Data(World)))

\* The step becomes result only from scoring with the cursor on the last
\* criterion of the last action.
ResultEntry ==
    (StepOf(user_data') = "result" /\ StepOf(user_data) # "result") =>
       /\ StepOf(user_data) = "scoring"
       /\ AtLastScore(user_data[chat_id])
       /\ user_data'[chat_id].actions[Len(user_data[chat_id].actions)].scores["meaning"]
            \in 1..5

\* C22: the step becomes result exactly when an accepted score press fills
\* the last criterion of the last action, after one accepted type press and
\* four accepted score presses for each action; in every state with step
\* result every action has a type and the four scores, and focus and
\* focus_type are the name and the type of the action pick_best_local
\* returns for the session's actions and energy level.
C22_ResultComplete ==
    /\ [](ResultTable /\ ResultOnLastScore)
    /\ [][ResultEntry]_vars

\* A result at energy high whose focus is the second action of the list.
C22_Witness ==
    /\ HasData(World)
    /\ Data(World).step = "result"
    /\ Data(World).result_msg_id = MsgResult
    /\ Data(World).energy_now = "high"
    /\ Cardinality(Data(World).answered_score_msgs) = 12
    /\ SpecBest(Data(World)) = 2
    /\ Data(World).focus = <<"c", "d">>
    /\ Data(World).focus_type = "physical"

\* A field of the session (the value of a fresh session when there is none).
Field(ud, f) == IF chat_id \in DOMAIN ud THEN ud[chat_id][f] ELSE FreshSession[f]

\* A flag is set only by an accepted press in the flag's step, and cleared
\* only by the replacement of the session; the energy level is written only
\* together with its flag.
FlagSteps ==
    /\ Field(user_data', "energy_locked") # Field(user_data, "energy_locked") =>
          IF Field(user_data', "energy_locked")
          THEN /\ StepOf(user_data) = "energy" /\ StepOf(user_data') = "actions"
               /\ Field(user_data, "energy_now") = "none"
          ELSE Restarted(user_data')
    /\ Field(user_data', "result_locked") # Field(user_data, "result_locked") =>
          IF Field(user_data', "result_locked")
          THEN StepOf(user_data) = "result"
          ELSE Restarted(user_data')
    /\ Field(user_data', "energy_now") # Field(user_data, "energy_now") =>
          \/ ~Field(user_data, "energy_locked") /\ Field(user_data', "energy_locked")
          \/ Restarted(user_data')

\* The sends of a tag among what a handler emitted.
SendCount(W, tag) ==
    Cardinality({i \in 1..Len(W.out) : W.out[i] = [k |-> "send", v |-> tag]})

\* An energy press from message m gets past the three tests.
EnergyAccepted(m) ==
    /\ HasData(World)
    /\ Data(World).step = "energy"
    /\ ~energy_stale(Data(World), m)
    /\ ~Data(World).energy_locked

\* An accepted energy press sets the level and the flag and sends the
\* actions prompt once; the same press delivered again, and any energy press
\* once the flag is set, changes nothing and sends nothing.
EnergyOnce ==
    \A m \in PressIds : \A lvl \in Levels :
       /\ EnergyAccepted(m) =>
             LET W == Run(World, energy_pick(World, m, lvl), 1, 0) IN
             /\ Data(W).energy_locked /\ Data(W).energy_now = lvl
             /\ SendCount(W, "actions_prompt") = 1
             /\ \A again \in Levels :
                   LET V == Run(W, energy_pick(W, m, again), 1, 0) IN
                   V.ud = W.ud /\ SendCount(V, "actions_prompt") = 1
       /\ (HasData(World) /\ Data(World).energy_locked) =>
             \A W \in Outcomes(energy_pick(World, m, lvl)) :
                SessionKept(W) /\ NoSend(W)

\* C23: with the handlers of a participant run one at a time, within a
\* session energy_locked and result_locked each change from false to true
\* at most once: a flag is set only by an accepted press and is
\* set back to false only by the replacement of the whole session at a new
\* start; so the energy level is set at most once in a session and the
\* actions prompt is sent at most once, also when the same energy press is
\* delivered twice.
C23_LockOnce ==
    /\ [][FlagSteps]_vars
    /\ []EnergyOnce

\* Both flags are set in the second session of a behaviour, and an energy
\* press delivered again from the session's energy prompt is turned away.
C23_Witness ==
    /\ HasData(World)
    /\ Data(World).energy_locked
    /\ Data(World).result_locked
    /\ focus_today = StartFocus + 2
    /\ Data(World).energy_msg_id = MsgEnergy
    /\ energy_pick(World, MsgEnergy, "low") = <<Answer("press_start")>>

\* C24: in every reachable state every action of the session has a name of
\* two characters at least.
C24_NameLength ==
    HasData(World) =>
       \A i \in 1..Len(Data(World).actions) : Len(Data(World).actions[i].name) >= 2

\* The fallible calls of a body that are appends to the event log, by their
\* place among the fallible calls.
LogFails(prog) ==
    {f \in 1..NFallible(prog) :
        \E i \in 1..Len(prog) :
           /\ prog[i].op = "log"
           /\ Cardinality({j \in 1..i : Fallible(prog[j])}) = f}

\* The messages sent among what a handler emitted, in order.
Sends(W) == SelectSeq(W.out, LAMBDA e : e.k = "send")

\* The body, with the f-th fallible call raising, leaves the session and
\* the callbacks it leaves when no call raises, and sends the same messages.
SameTransition(prog, f) ==
    LET W == Run(World, prog, 1, f)
        V == Run(World, prog, 1, 0)
    IN  W.ud = V.ud /\ W.tm = V.tm /\ W.th = V.th /\ Sends(W) = Sends(V)

\* C25: when the append of an event fails in the handling of an accepted
\* energy press or score press, the handler still ends its transition and
\* sends what it sends otherwise: the actions prompt after the energy press,
\* the next score prompt or the result message, with its binding, after the
\* score press.
C25_LogFailureSwallowed ==
    \A m \in PressIds :
       /\ EnergyAccepted(m) =>
             \A lvl \in Levels : \A f \in LogFails(energy_pick(World, m, lvl)) :
                SameTransition(energy_pick(World, m, lvl), f)
       /\ ScoreAccepted(m) =>
             \A f \in LogFails(score_pick(World, m, ScoreAnswer(World))) :
                SameTransition(score_pick(World, m, ScoreAnswer(World)), f)

\* ------------------------------------------------------------------------
\* Properties of the callbacks along the session (Spec).
\* ------------------------------------------------------------------------
\* C27: with the handlers of a participant run one at a time, in every
\* reachable state a pending check implies step started and a pending remind
\* implies step idle; so a check and a remind are never pending together.
C27_TimersFollowStep ==
    /\ \A t \in threads :
          t.st = "pending" =>
             /\ t.kind = "check" => StepOf(user_data) = "started"
             /\ t.kind = "remind" => StepOf(user_data) = "idle"
    /\ ~(Pending(threads, "check") # {} /\ Pending(threads, "remind") # {})

\* A remind is pending in step idle while the check of the session before
\* has begun to fire.
C27_Witness ==
    /\ StepOf(user_data) = "idle"
    /\ Pending(threads, "remind") # {}
    /\ \E t \in threads : t.kind = "check" /\ t.st = "firing"

\* C28: with the handlers of a participant run one at a time, in every
\* reachable state a pending support callback implies step started; a
\* prog:ok press in any other step arms nothing.
C28_SupportWhileStarted ==
    /\ \A t \in threads :
          (t.st = "pending" /\ t.kind = "support") => StepOf(user_data) = "started"
    /\ (HasData(World) /\ Data(World).step # "started") =>
          Pending(Run(World, progress_handler(World, "ok"), 1, 0).th, "support") = {}

\* A "focus" event is appended only by the step that takes the session from
\* scoring to result, one event; and that step appends it, unless the append
\* itself raises.
FocusOnResult ==
    /\ focus_today' # focus_today =>
          /\ focus_today' = focus_today + 1
          /\ StepOf(user_data) = "scoring" /\ StepOf(user_data') = "result"
    /\ (StepOf(user_data) # "result" /\ StepOf(user_data') = "result") =>
          \/ focus_today' = focus_today + 1
          \/ fails' = fails + 1 /\ Field(user_data', "result_msg_id") = NoMsg

\* The "focus" events of the day are within the cap of the tier.
WithinQuota ==
    chat_id \notin ADMIN_IDS =>
       /\ effective_plan = "free" => focus_today <= 3
       /\ effective_plan = "week" => focus_today <= 5

\* C29: a session appends one "focus" event, when it enters result; with
\* the handlers of a participant run one at a time, the "focus" events of a
\* day of a participant who is not an admin never exceed 3 on the free tier
\* and 5 on week, whatever starts, restarts, presses, texts and timer
\* firings occur.
C29_QuotaKept ==
    /\ []WithinQuota
    /\ [][FocusOnResult]_vars

\* A free participant's session entered result with the third "focus" event
\* of the day, and a new start is denied.
C29_Witness ==
    /\ chat_id \notin ADMIN_IDS
    /\ effective_plan = "free"
    /\ focus_today = 3
    /\ StepOf(user_data) = "result"
    /\ Data(World).result_msg_id = MsgResult
    /\ start_energy_flow(World) = <<Send("limit_reached")>>

\* ------------------------------------------------------------------------
\* SpecFire: the timer threads after a result press armed the check.  A
\* started threading.Timer waits its interval and then runs its function,
\* unless cancel() came first: the wake and the run of a thread are weakly
\* fair.  The history ops records every call and every step of a thread.
\* ------------------------------------------------------------------------
\* The session brought to its result, and res:start pressed on the result.
StartedWorld ==
    CHOOSE R \in {RunAll(W, result_actions(W, Data(W).result_msg_id, "start")) :
                    W \in {ResultWorld("low")}} : TRUE

FireInit ==
    /\ chat_id \in Chats /\ sub = NoSub
    /\ \E W \in {StartedWorld} :
          /\ user_data = W.ud /\ timers = W.tm /\ threads = W.th
          /\ focus_today = W.fc
    /\ fails = 0
    /\ calls = <<>> /\ pick_in = <<>> /\ pick_out = 0 /\ gate_out = <<>>
    /\ ops = <<Op("arm", "check", 10)>>

FireFrame == UNCHANGED <<chat_id, sub, calls, pick_in, pick_out, gate_out>>

\* The calls of the scheduler made by handlers since the first.
Requested == Cardinality({i \in 2..Len(ops) : ops[i].op \in {"arm", "cancel"}})

FireDone(W, op) ==
    /\ Apply(W)
    /\ ops' = Append(ops, op)
    /\ FireFrame

\* A handler arms a callback.
FireArm ==
    /\ Requested < MaxArms
    /\ \/ \E minutes \in ArmMinutes :
             FireDone(schedule_remind(World, minutes), Op("arm", "remind", minutes))
       \/ FireDone(schedule_check(World, 10), Op("arm", "check", 10))
       \/ FireDone(schedule_support_after_ok_two_month(World), Op("arm", "support", 10))
    /\ UNCHANGED fails

\* A handler cancels the callbacks.
FireCancelAll ==
    /\ Requested < MaxArms
    /\ FireDone(cancel_all_timers(World), Op("cancel", "all", 0))
    /\ UNCHANGED fails

\* The wait of a pending thread ends.
FireWake ==
    \E t \in threads :
       /\ t.st = "pending"
       /\ FireDone([World EXCEPT !.th = (@ \ {t}) \cup {[t EXCEPT !.st = "firing"]}],
                   Op("wake", t.kind, t.minutes))
       /\ UNCHANGED fails

\* The world a firing thread runs its function in: the thread ends with it.
Firing(t) ==
    [World EXCEPT !.th = @ \ {t},
                  !.tm = [k \in Kinds |-> IF @[k] = t.id THEN FinishedTimer ELSE @[k]]]

\* A thread runs its function, to its end or to a call that raises, and ends.
FireRun ==
    \E t \in threads :
       /\ t.st = "firing"
       /\ \E f \in Raises(timer_function(Firing(t), t.kind)) :
             /\ FireDone(Run(Firing(t), timer_function(Firing(t), t.kind), 1, f),
                         Op(IF f = 1 THEN "run_unsent" ELSE "run", t.kind, t.minutes))
             /\ fails' = IF f = 0 THEN fails ELSE fails + 1

FireNext == FireArm \/ FireCancelAll \/ FireWake \/ FireRun

SpecFire ==
    FireInit /\ [][FireNext]_vars /\ WF_vars(FireWake) /\ WF_vars(FireRun)

\* The operations of a sort recorded for a kind.
OpCount(sorts, kind) ==
    Cardinality({i \in 1..Len(ops) : ops[i].op \in sorts /\ ops[i].kind = kind})

LogCount(W) == Cardinality({i \in 1..Len(W.out) : W.out[i].k = "log"})

\* No callback begins to fire more often than its kind was armed, nor runs
\* more often than it began to fire.
FiredAtMostOnce ==
    \A k \in Kinds :
       /\ OpCount({"wake"}, k) <= OpCount({"arm"}, k)
       /\ OpCount({"run", "run_unsent"}, k) <= OpCount({"wake"}, k)

\* What a firing thread does, whichever of its calls raises: one message
\* and one event at most, nothing when the send raises; the thread ends, no
\* thread is started, and the session and the other callbacks are as before.
FiresQuietly ==
    \A t \in threads :
       t.st = "firing" =>
          \A f \in 0..NFallible(timer_function(Firing(t), t.kind)) :
             LET W == Run(Firing(t), timer_function(Firing(t), t.kind), 1, f) IN
             /\ Len(Sends(W)) <= 1 /\ LogCount(W) <= 1
             /\ f = 1 => W.out = <<>>
             /\ W.ud = user_data
             /\ W.th = threads \ {t}
             /\ \A k \in Kinds : W.tm[k] \in {timers[k], FinishedTimer}
             /\ \A k \in Kinds \ {t.kind} : W.tm[k] = timers[k]

LastOp(h) == h[Len(h)]

\* A pending callback stops being pending only by a cancel, by a new arm of
\* its kind or by the end of its wait, which makes it firing; a firing one
\* ends only by the run of its function.
LeavesByFiring ==
    \A t \in threads \ threads' :
       /\ Len(ops') = Len(ops) + 1
       /\ IF t.st = "pending"
          THEN \/ LastOp(ops') = Op("cancel", "all", 0)
               \/ LastOp(ops').op = "arm" /\ LastOp(ops').kind = t.kind
               \/ /\ LastOp(ops') = Op("wake", t.kind, t.minutes)
                  /\ [t EXCEPT !.st = "firing"] \in threads'
          ELSE /\ LastOp(ops').op \in {"run", "run_unsent"}
               /\ LastOp(ops').kind = t.kind

IsFiring(th, kind) == {t \in th : t.kind = kind /\ t.st = "firing"}

\* C26: an armed callback that is neither cancelled nor replaced eventually
\* runs its function, the timer threads being fair: it stops being pending,
\* which without a cancel or a new arm is the end of its wait, and a firing
\* callback runs.  A callback fires at most once, sends one message and
\* appends one event at most, and when its send raises it ends without a
\* message, without an event, without arming anything, the session and the
\* other callbacks left as they were.
C26_OneShotFire ==
    /\ [](FiredAtMostOnce /\ FiresQuietly)
    /\ [][LeavesByFiring]_vars
    /\ \A k \in Kinds :
          /\ (Pending(threads, k) # {}) ~> (Pending(threads, k) = {})
          /\ (IsFiring(threads, k) # {}) ~> (IsFiring(threads, k) = {})

\* The support callback of an admin ran and its send raised, while a remind
\* was pending: the remind is still pending and no support is.
C26_Witness ==
    /\ ops[Len(ops)] = Op("run_unsent", "support", 10)
    /\ fails = 1
    /\ Pending(threads, "remind") # {}
    /\ \A t \in threads : t.kind # "support"
    /\ HasData(World)

====
